---- MODULE Spec2Model ----
(***************************************************************************)
(* useRetryFn (src/index.js): the retry control loop of one call           *)
(* useRetryFn(fn, options), as a state machine.                            *)
(*                                                                         *)
(* One call is one coroutine.  pc is its position:                         *)
(*   "while"   about to test the loop condition (line 5)                   *)
(*   "fn"      inside the synchronous part of fn's body (line 15)          *)
(*   "race"    suspended in  await Promise.race([...])  (line 14)          *)
(*   "onError" inside the body of options.onError (line 40)                *)
(*   "decide"  onError is over, about to test skipRetry (line 49)          *)
(*   "sleep"   suspended in the inter-attempt delay (line 52)              *)
(*   "done"    the promise returned by useRetryFn is settled               *)
(* JavaScript runs each synchronous stretch to completion, so timer        *)
(* callbacks and other late callbacks only run while the coroutine is      *)
(* suspended ("race", "sleep") or over ("done").                           *)
(*                                                                         *)
(* customError and skipRetry are declared with let inside the while body:  *)
(* every iteration has its own pair, and the closures created in an        *)
(* iteration (fn's skipRetry, onError's skipRetry, the timeout callback)   *)
(* refer to the pair of that iteration.  They are modelled as functions    *)
(* from the iteration (the value of attempts at loop entry) to the value.  *)
(***************************************************************************)
EXTENDS Integers, Sequences, FiniteSets, TLC

\* ------------------------------------------------------------------ bounds
\* Largest configured options.maxAttempts that is explored.
MaxCfgAttempts == 2
\* Largest number of skipRetry invocations in one call that is explored.
MaxSkipCalls == 2

\* --------------------------------------------------------------- constants
\* options.maxAttempts ?? 5
DefaultMaxAttempts == 5
\* options.delay ?? 100
DefaultDelay == 100

\* ------------------------------------------------------------------ values
\* A value or an error: what it is and, for an error raised by fn, the
\* attempt that raised it (as in  new Error(`Attempt ${attempts} failed`)).
Val(name, at) == [name |-> name, at |-> at]
Null == Val("null", 0)
Undefined == Val("undefined", 0)
\* new Error('Operation timed out')
TimeoutError == Val("Operation timed out", 0)
\* The error fn raises in the attempt it is invoked with
OpError(a) == Val("Attempt failed", a)
\* Errors handed to skipRetry, errors raised by the callbacks, values fn returns
SkipErrors == {Val("Custom error", 0)}
CallbackErrors == {Val("callback failed", 0)}
Values == {Val("success", 0)}

\* An optional numeric option: absent, or present with a value.
None == [set |-> FALSE, val |-> 0]
Some(v) == [set |-> TRUE, val |-> v]

\* a ?? d  for an optional number
Coalesce(o, d) == IF o.set THEN o.val ELSE d
\* the truthiness of an optional number: undefined and 0 are falsy
TruthyNum(o) == o.set /\ o.val # 0
\* err ?? null
OrNull(e) == IF e = Undefined \/ e = Null THEN Null ELSE e
\* a bug: throw lastError, whatever customError holds
OrIgnoresLeft(a, b) == b

\* a || b  on error values (an Error object is truthy, null is falsy)
Or(a, b) == IF a # Null THEN a ELSE b

\* The option objects a call is made with.  delay is absent, a number, or a
\* function ({attempts}) => attempts * val.
DelayOptions ==
    { [type |-> "undefined", val |-> 0],
      [type |-> "number", val |-> 0],
      [type |-> "function", val |-> 50] }
MaxAttemptsOptions == {None} \cup {Some(m) : m \in 1..MaxCfgAttempts}
TimeoutOptions == {None, Some(1000)}
OptionsSet ==
    [ delay : DelayOptions,
      maxAttempts : MaxAttemptsOptions,
      timeout : TimeoutOptions,
      onError : BOOLEAN ]

VARIABLES
    options,      \* the options argument
    pc,           \* position of the coroutine
    attempts,     \* let attempts
    lastError,    \* let lastError
    maxAttempts,  \* let maxAttempts
    frame,        \* the iteration being executed (attempts at its entry)
    customError,  \* iteration -> its let customError
    skipRetry,    \* iteration -> its let skipRetry
    delay,        \* let delay of the current iteration
    op,           \* iteration -> state of the value fn returned
    race,         \* iteration -> who settled Promise.race
    timers,       \* iterations whose timeout timer is armed and not fired
    result,       \* how the promise of useRetryFn settled
    fnArgs,       \* the attempts values fn was invoked with, in order
    onErrorArgs,  \* the attempts values onError was invoked with, in order
    delayArgs,    \* the attempts values options.delay was invoked with
    slept,        \* the delays handed to setTimeout at line 53, in order
    elapsed,      \* number of those delay timers that fired
    skipLog,      \* the skipRetry invocations made before the decision, in order
    staleCalls    \* number of skipRetry invocations made after the decision

vars == << options, pc, attempts, lastError, maxAttempts, frame, customError,
           skipRetry, delay, op, race, timers, result, fnArgs, onErrorArgs,
           delayArgs, slept, elapsed, skipLog, staleCalls >>

config == << options, maxAttempts >>
history == << fnArgs, onErrorArgs, delayArgs, slept, elapsed, skipLog, staleCalls >>

\* number of skipRetry invocations so far
SkipCalls == Len(skipLog) + staleCalls

Pending == [kind |-> "none", val |-> Null, via |-> "none"]
Returned(v) == [kind |-> "value", val |-> v, via |-> "return"]
Thrown(e, via) == [kind |-> "error", val |-> e, via |-> via]

\* f with x mapped to v, x added to the domain when it is new
Put(f, x, v) == [y \in DOMAIN f \cup {x} |-> IF y = x THEN v ELSE f[y]]

Init ==
    /\ options \in OptionsSet
    /\ pc = "while"
    /\ attempts = 1
    /\ lastError = Null
    /\ maxAttempts = Coalesce(options.maxAttempts, DefaultMaxAttempts)
    /\ frame = 0
    /\ customError = << >>
    /\ skipRetry = << >>
    /\ delay = 0
    /\ op = << >>
    /\ race = << >>
    /\ timers = {}
    /\ result = Pending
    /\ fnArgs = << >>
    /\ onErrorArgs = << >>
    /\ delayArgs = << >>
    /\ slept = << >>
    /\ elapsed = 0
    /\ skipLog = << >>
    /\ staleCalls = 0

\* ------------------------------------------------------------- the closures
\* a bug: an invocation without argument keeps the override recorded before
SetSkipKeepsOverride(n, e) ==
    /\ customError' = [customError EXCEPT ![n] = IF e = Undefined THEN customError[n] ELSE e]
    /\ skipRetry' = [skipRetry EXCEPT ![n] = TRUE]

\* a bug: a second invocation un-latches the flag
SetSkipToggle(n, e) ==
    /\ customError' = [customError EXCEPT ![n] = OrNull(e)]
    /\ skipRetry' = [skipRetry EXCEPT ![n] = ~skipRetry[n]]

\* (err) => { customError = err ?? null; skipRetry = true; }  of iteration n
SetSkip(n, e) ==
    /\ customError' = [customError EXCEPT ![n] = OrNull(e)]
    /\ skipRetry' = [skipRetry EXCEPT ![n] = TRUE]

\* a bug: the delay is computed for the ordinal after the increment
DelayForNext(a) ==
    IF options.delay.type = "function" THEN (a + 1) * options.delay.val
    ELSE IF options.delay.type = "number" THEN options.delay.val
    ELSE DefaultDelay

\* typeof options.delay === 'function' ? options.delay({attempts}) : (options.delay ?? 100)
DelayFor(a) ==
    IF options.delay.type = "function" THEN a * options.delay.val
    ELSE IF options.delay.type = "number" THEN options.delay.val
    ELSE DefaultDelay

\* a bug: the timeout timer is never armed
ArmNever(n) == timers

\* ...(options.timeout ? [new Promise(... setTimeout(..., options.timeout))] : [])
Arm(n) == IF TruthyNum(options.timeout) THEN timers \cup {n} ELSE timers

\* a bug: a failure advances the counter by two
CatchCountsTwice(err) ==
    /\ lastError' = err
    /\ attempts' = attempts + 2
    /\ IF options.onError
         THEN /\ onErrorArgs' = Append(onErrorArgs, attempts + 2)
              /\ pc' = "onError"
         ELSE /\ onErrorArgs' = onErrorArgs
              /\ pc' = "decide"

\* a bug: lastError keeps the first failure
CatchKeepFirst(err) ==
    /\ lastError' = IF lastError = Null THEN err ELSE lastError
    /\ attempts' = attempts + 1
    /\ IF options.onError
         THEN /\ onErrorArgs' = Append(onErrorArgs, attempts + 1)
              /\ pc' = "onError"
         ELSE /\ onErrorArgs' = onErrorArgs
              /\ pc' = "decide"

\* a bug: the failure is not recorded in lastError
CatchNoRecord(err) ==
    /\ lastError' = lastError
    /\ attempts' = attempts + 1
    /\ IF options.onError
         THEN /\ onErrorArgs' = Append(onErrorArgs, attempts + 1)
              /\ pc' = "onError"
         ELSE /\ onErrorArgs' = onErrorArgs
              /\ pc' = "decide"

\* a bug: onError is invoked before attempts is incremented
CatchOnErrorBeforeIncrement(err) ==
    /\ lastError' = err
    /\ attempts' = attempts + 1
    /\ IF options.onError
         THEN /\ onErrorArgs' = Append(onErrorArgs, attempts)
              /\ pc' = "onError"
         ELSE /\ onErrorArgs' = onErrorArgs
              /\ pc' = "decide"

\* catch (err) { lastError = err; attempts++; if (onError is a function) onError({attempts, skipRetry}) ...
\* up to the entry into onError's body
Catch(err) ==
    /\ lastError' = err
    /\ attempts' = attempts + 1
    /\ IF options.onError
         THEN /\ onErrorArgs' = Append(onErrorArgs, attempts + 1)
              /\ pc' = "onError"
         ELSE /\ onErrorArgs' = onErrorArgs
              /\ pc' = "decide"

\* a bug: the loop stops one attempt early
LoopConditionStrict == attempts < maxAttempts

\* attempts <= maxAttempts  (line 5)
LoopCondition == attempts <= maxAttempts

\* the smallest element of a non-empty set of numbers
Min(S) == CHOOSE x \in S : \A y \in S : x <= y

\* ----------------------------------------------------------------- actions
\* while (attempts <= maxAttempts) { let customError = null; let skipRetry = false;
\* let delay = ...; try { ... fn({attempts, skipRetry}) : control enters fn's body
Enter ==
    /\ pc = "while"
    /\ LoopCondition
    /\ frame' = attempts
    /\ customError' = Put(customError, attempts, Null)
    /\ skipRetry' = Put(skipRetry, attempts, FALSE)
    /\ delay' = DelayFor(attempts)
    /\ delayArgs' = IF options.delay.type = "function"
                      THEN Append(delayArgs, attempts) ELSE delayArgs
    /\ fnArgs' = Append(fnArgs, attempts)
    /\ op' = Put(op, attempts, [state |-> "running", val |-> Null])
    /\ race' = Put(race, attempts, "none")
    /\ pc' = "fn"
    /\ UNCHANGED << config, attempts, lastError, timers, result, onErrorArgs,
                    slept, elapsed, skipLog, staleCalls >>

\* options.delay({attempts}) raises: lines 8-12 are outside the try block
DelayRaise(e) ==
    /\ pc = "while"
    /\ LoopCondition
    /\ options.delay.type = "function"
    /\ delayArgs' = Append(delayArgs, attempts)
    /\ result' = Thrown(e, "delay")
    /\ pc' = "done"
    /\ UNCHANGED << config, attempts, lastError, frame, customError, skipRetry,
                    delay, op, race, timers, fnArgs, onErrorArgs, slept, elapsed, skipLog,
                    staleCalls >>

\* the loop condition is false: throw lastError (line 57)
Exhaust ==
    /\ pc = "while"
    /\ ~LoopCondition
    /\ result' = Thrown(lastError, "exhausted")
    /\ pc' = "done"
    /\ UNCHANGED << config, attempts, lastError, frame, customError, skipRetry,
                    delay, op, race, timers, history >>

\* fn calls the skipRetry of its context, in its synchronous part or later
\* while the race is still awaited
FnSkipRetry(e) ==
    /\ pc \in {"fn", "race"}
    /\ SkipCalls < MaxSkipCalls
    /\ SetSkip(frame, e)
    /\ skipLog' = Append(skipLog, [n |-> frame, by |-> "fn", arg |-> e, live |-> TRUE])
    /\ UNCHANGED << config, pc, attempts, lastError, frame, delay, op, race,
                    timers, result, fnArgs, onErrorArgs, delayArgs, slept,
                    elapsed, staleCalls >>

\* fn throws synchronously: the array literal of line 14 is never completed,
\* no timer is armed, control goes to the catch block
FnThrow ==
    /\ pc = "fn"
    /\ op' = [op EXCEPT ![frame] = [state |-> "failed", val |-> OpError(fnArgs[Len(fnArgs)])]]
    /\ Catch(OpError(fnArgs[Len(fnArgs)]))
    /\ UNCHANGED << config, frame, customError, skipRetry, delay, race, timers,
                    result, fnArgs, delayArgs, slept, elapsed, skipLog, staleCalls >>

\* fn returns a value that is not a promise: the race is won by it, return result
FnReturnValue(v) ==
    /\ pc = "fn"
    /\ op' = [op EXCEPT ![frame] = [state |-> "returned", val |-> v]]
    /\ timers' = Arm(frame)
    /\ race' = [race EXCEPT ![frame] = "op"]
    /\ result' = Returned(v)
    /\ pc' = "done"
    /\ UNCHANGED << config, attempts, lastError, frame, customError, skipRetry,
                    delay, history >>

\* fn returns a promise: the timer is armed and the coroutine awaits the race
FnReturnPromise ==
    /\ pc = "fn"
    /\ op' = [op EXCEPT ![frame] = [state |-> "pending", val |-> Null]]
    /\ timers' = Arm(frame)
    /\ race' = [race EXCEPT ![frame] = "pending"]
    /\ pc' = "race"
    /\ UNCHANGED << config, attempts, lastError, frame, customError, skipRetry,
                    delay, result, history >>

\* a bug: a recorded skip request turns the success into a failure
FnResolveHonoursSkip(v) ==
    /\ pc = "race"
    /\ op' = [op EXCEPT ![frame] = [state |-> "returned", val |-> v]]
    /\ race' = [race EXCEPT ![frame] = "op"]
    /\ result' = IF skipRetry[frame]
                   THEN Thrown(Or(customError[frame], v), "skip")
                   ELSE Returned(v)
    /\ pc' = "done"
    /\ UNCHANGED << config, attempts, lastError, frame, customError, skipRetry,
                    delay, timers, history >>

\* the promise of fn is fulfilled while awaited: return result (line 33)
FnResolve(v) ==
    /\ pc = "race"
    /\ op' = [op EXCEPT ![frame] = [state |-> "returned", val |-> v]]
    /\ race' = [race EXCEPT ![frame] = "op"]
    /\ result' = Returned(v)
    /\ pc' = "done"
    /\ UNCHANGED << config, attempts, lastError, frame, customError, skipRetry,
                    delay, timers, history >>

\* the promise of fn is rejected while awaited: the catch block runs
FnReject ==
    /\ pc = "race"
    /\ op' = [op EXCEPT ![frame] = [state |-> "failed", val |-> OpError(fnArgs[Len(fnArgs)])]]
    /\ race' = [race EXCEPT ![frame] = "op"]
    /\ Catch(OpError(fnArgs[Len(fnArgs)]))
    /\ UNCHANGED << config, frame, customError, skipRetry, delay, timers,
                    result, fnArgs, delayArgs, slept, elapsed, skipLog, staleCalls >>

\* a bug: the rejection of the timer reaches the catch block even when the
\* race is already settled
TimeoutFireAlwaysRejects(n) ==
    /\ pc \in {"race", "sleep", "done"}
    /\ n \in timers
    /\ n = Min(timers)
    /\ timers' = timers \ {n}
    /\ skipRetry' = [skipRetry EXCEPT ![n] = TRUE]
    /\ race' = [race EXCEPT ![n] = "timer"]
    /\ Catch(TimeoutError)
    /\ UNCHANGED << config, frame, customError, delay, op, result, fnArgs,
                    delayArgs, slept, elapsed, skipLog, staleCalls >>

\* a bug: the skip flag is shared by the iterations, the timer of an earlier
\* attempt sets the flag of the attempt in progress
TimeoutFireSharedFlag(n) ==
    /\ pc \in {"race", "sleep", "done"}
    /\ n \in timers
    /\ n = Min(timers)
    /\ timers' = timers \ {n}
    /\ skipRetry' = [skipRetry EXCEPT ![frame] = TRUE]
    /\ IF race[n] = "pending"
         THEN /\ race' = [race EXCEPT ![n] = "timer"]
              /\ Catch(TimeoutError)
         ELSE UNCHANGED << race, lastError, attempts, onErrorArgs, pc >>
    /\ UNCHANGED << config, frame, customError, delay, op, result, fnArgs,
                    delayArgs, slept, elapsed, skipLog, staleCalls >>

\* a bug: the timeout callback rejects without latching skipRetry
TimeoutFireNoLatch(n) ==
    /\ pc \in {"race", "sleep", "done"}
    /\ n \in timers
    /\ n = Min(timers)
    /\ timers' = timers \ {n}
    /\ skipRetry' = skipRetry
    /\ IF race[n] = "pending"
         THEN /\ race' = [race EXCEPT ![n] = "timer"]
              /\ Catch(TimeoutError)
         ELSE UNCHANGED << race, lastError, attempts, onErrorArgs, pc >>
    /\ UNCHANGED << config, frame, customError, delay, op, result, fnArgs,
                    delayArgs, slept, elapsed, skipLog, staleCalls >>

\* setTimeout(() => { skipRetry = true; reject(new Error('Operation timed out')); }, options.timeout)
\* of iteration n.  Timers of equal duration fire in the order they were armed.
\* reject() settles the race only when it is still pending.
TimeoutFire(n) ==
    /\ pc \in {"race", "sleep", "done"}
    /\ n \in timers
    /\ n = Min(timers)
    /\ timers' = timers \ {n}
    /\ skipRetry' = [skipRetry EXCEPT ![n] = TRUE]
    /\ IF race[n] = "pending"
         THEN /\ race' = [race EXCEPT ![n] = "timer"]
              /\ Catch(TimeoutError)
         ELSE UNCHANGED << race, lastError, attempts, onErrorArgs, pc >>
    /\ UNCHANGED << config, frame, customError, delay, op, result, fnArgs,
                    delayArgs, slept, elapsed, skipLog, staleCalls >>

\* the promise of an operation abandoned by a timeout settles later
AbandonedSettle(n, s) ==
    /\ pc \in {"race", "sleep", "done"}
    /\ n \in DOMAIN op
    /\ op[n].state = "pending"
    /\ race[n] = "timer"
    /\ op' = [op EXCEPT ![n] = s]
    /\ UNCHANGED << config, pc, attempts, lastError, frame, customError,
                    skipRetry, delay, race, timers, result, history >>

\* a skipRetry closure kept by fn or onError is called after its iteration
\* took its decision
StaleSkipRetry(n, e) ==
    /\ pc \in {"race", "sleep", "done"}
    /\ n \in DOMAIN skipRetry
    /\ ~(n = frame /\ pc = "race")
    /\ SkipCalls < MaxSkipCalls
    /\ SetSkip(n, e)
    /\ staleCalls' = staleCalls + 1
    /\ UNCHANGED << config, pc, attempts, lastError, frame, delay, op, race,
                    timers, result, fnArgs, onErrorArgs, delayArgs, slept, elapsed,
                    skipLog >>

\* onError calls the skipRetry of its context
OnErrorSkipRetry(e) ==
    /\ pc = "onError"
    /\ SkipCalls < MaxSkipCalls
    /\ SetSkip(frame, e)
    /\ skipLog' = Append(skipLog, [n |-> frame, by |-> "onError", arg |-> e, live |-> TRUE])
    /\ UNCHANGED << config, pc, attempts, lastError, frame, delay, op, race,
                    timers, result, fnArgs, onErrorArgs, delayArgs, slept,
                    elapsed, staleCalls >>

\* onError returns
OnErrorReturn ==
    /\ pc = "onError"
    /\ pc' = "decide"
    /\ UNCHANGED << config, attempts, lastError, frame, customError, skipRetry,
                    delay, op, race, timers, result, history >>

\* a bug: the failure of onError is swallowed in favour of the skip decision
OnErrorRaiseSwallowed(e) ==
    /\ pc = "onError"
    /\ result' = Thrown(Or(customError[frame], lastError), "onError")
    /\ pc' = "done"
    /\ UNCHANGED << config, attempts, lastError, frame, customError, skipRetry,
                    delay, op, race, timers, history >>

\* onError raises: nothing in the catch block catches it
OnErrorRaise(e) ==
    /\ pc = "onError"
    /\ result' = Thrown(e, "onError")
    /\ pc' = "done"
    /\ UNCHANGED << config, attempts, lastError, frame, customError, skipRetry,
                    delay, op, race, timers, history >>

\* a bug: the next attempt follows at once, no delay is set up
DecideNoSleep ==
    /\ pc = "decide"
    /\ IF skipRetry[frame]
         THEN /\ result' = Thrown(Or(customError[frame], lastError), "skip")
              /\ pc' = "done"
         ELSE /\ pc' = "while"
              /\ result' = result
    /\ UNCHANGED << config, attempts, lastError, frame, customError, skipRetry,
                    delay, op, race, timers, history >>

\* a bug: the delay promise is created but not awaited
DecideNoAwait ==
    /\ pc = "decide"
    /\ IF skipRetry[frame]
         THEN /\ result' = Thrown(Or(customError[frame], lastError), "skip")
              /\ pc' = "done"
              /\ slept' = slept
         ELSE /\ slept' = Append(slept, delay)
              /\ pc' = "while"
              /\ result' = result
    /\ UNCHANGED << config, attempts, lastError, frame, customError, skipRetry,
                    delay, op, race, timers, fnArgs, onErrorArgs, delayArgs,
                    elapsed, skipLog, staleCalls >>

\* a bug: the decision tests customError instead of skipRetry
DecideOnCustomError ==
    /\ pc = "decide"
    /\ IF customError[frame] # Null
         THEN /\ result' = Thrown(Or(customError[frame], lastError), "skip")
              /\ pc' = "done"
              /\ slept' = slept
         ELSE /\ slept' = Append(slept, delay)
              /\ pc' = "sleep"
              /\ result' = result
    /\ UNCHANGED << config, attempts, lastError, frame, customError, skipRetry,
                    delay, op, race, timers, fnArgs, onErrorArgs, delayArgs,
                    elapsed, skipLog, staleCalls >>

\* if (skipRetry) { throw customError || lastError; }
\* await new Promise(resolve => { setTimeout(resolve, delay); });
Decide ==
    /\ pc = "decide"
    /\ IF skipRetry[frame]
         THEN /\ result' = Thrown(Or(customError[frame], lastError), "skip")
              /\ pc' = "done"
              /\ slept' = slept
         ELSE /\ slept' = Append(slept, delay)
              /\ pc' = "sleep"
              /\ result' = result
    /\ UNCHANGED << config, attempts, lastError, frame, customError, skipRetry,
                    delay, op, race, timers, fnArgs, onErrorArgs, delayArgs,
                    elapsed, skipLog, staleCalls >>

\* the delay timer fires: the loop condition is tested next
Wake ==
    /\ pc = "sleep"
    /\ elapsed' = elapsed + 1
    /\ pc' = "while"
    /\ UNCHANGED << config, attempts, lastError, frame, customError, skipRetry,
                    delay, op, race, timers, result, fnArgs, onErrorArgs,
                    delayArgs, slept, skipLog, staleCalls >>

SkipArgs == SkipErrors \cup {Undefined}
Settled(n) == [state : {"returned"}, val : Values] \cup {[state |-> "failed", val |-> OpError(n)]}

\* The steps of a call whose callbacks (onError, the delay function) return.
NextReturning ==
    \/ Enter
    \/ Exhaust
    \/ \E e \in SkipArgs : FnSkipRetry(e)
    \/ FnThrow
    \/ \E v \in Values : FnReturnValue(v)
    \/ FnReturnPromise
    \/ \E v \in Values : FnResolve(v)
    \/ FnReject
    \/ \E n \in timers : TimeoutFire(n)
    \/ \E n \in DOMAIN op : \E s \in Settled(n) : AbandonedSettle(n, s)
    \/ \E n \in DOMAIN skipRetry, e \in SkipArgs : StaleSkipRetry(n, e)
    \/ \E e \in SkipArgs : OnErrorSkipRetry(e)
    \/ OnErrorReturn
    \/ Decide
    \/ Wake

\* The steps of a call, the callbacks raising included.
Next ==
    \/ NextReturning
    \/ \E e \in CallbackErrors : DelayRaise(e)
    \/ \E e \in CallbackErrors : OnErrorRaise(e)

Spec == Init /\ [][Next]_vars
SpecReturning == Init /\ [][NextReturning]_vars

\* ------------------------------------------------------------ observations
Done == pc = "done"
\* the operation was invoked this many times
Calls == Len(fnArgs)
\* attempt n is over and failed: its timer won the race, or fn raised
TimedOut(n) == n \in DOMAIN race /\ race[n] = "timer"
Raised(n) == n \in DOMAIN op /\ op[n].state = "failed" /\ race[n] # "timer"
Failed(n) == TimedOut(n) \/ Raised(n)
\* attempt n is over and succeeded: fn's value won the race
Succeeded(n) == n \in DOMAIN op /\ op[n].state = "returned" /\ race[n] = "op"
\* the failure of a failed attempt n, as the catch block received it
FailureOf(n) == IF TimedOut(n) THEN TimeoutError ELSE op[n].val
\* the last invocation of skipRetry made before the decision of its attempt
LastSkip == skipLog[Len(skipLog)]

\* ------------------------------------------------------------------- C1
\* C1: for every k < maxAttempts, when the first k invocations of the
\* operation failed and invocation k+1 succeeded, the call returned the value
\* of invocation k+1, the operation was invoked exactly k+1 times and exactly
\* k delays were awaited (k = 0: one invocation, no delay).
C1_RetryUntilSuccess ==
    \A k \in 0..(maxAttempts - 1) :
        ((\A i \in 1..k : Raised(i)) /\ Succeeded(k + 1))
            => /\ result = Returned(op[k + 1].val)
               /\ Calls = k + 1
               /\ Len(slept) = k
               /\ elapsed = k

\* the operation failed three times and succeeded the fourth time under the
\* default options: four invocations, the default delay awaited three times
C1_Witness ==
    /\ Done
    /\ ~options.maxAttempts.set
    /\ options.delay.type = "undefined"
    /\ \A i \in 1..3 : Raised(i)
    /\ Succeeded(4)
    /\ result.kind = "value"
    /\ slept = << 100, 100, 100 >>

C8_DelayOrdinal ==
    /\ options.delay.type = "function" =>
        /\ \A i \in 1..Len(delayArgs) : delayArgs[i] = i
        /\ Len(delayArgs) = Calls + (IF result.via = "delay" THEN 1 ELSE 0)
    /\ options.delay.type # "function" => delayArgs = << >>
    /\ Len(slept) <= Calls
    /\ \A n \in 1..Len(slept) :
        /\ Raised(n)
        /\ options.delay.type = "function" => slept[n] = n * options.delay.val
        /\ options.delay.type = "number" => slept[n] = options.delay.val
        /\ options.delay.type = "undefined" => slept[n] = 100

\* with delay = ({attempts}) => attempts * 50 the delays after the first and
\* the second failure were 50 and 100
C8_Witness ==
    /\ options.delay = [type |-> "function", val |-> 50]
    /\ delayArgs = << 1, 2, 3 >>
    /\ slept = << 50, 100 >>
    /\ Succeeded(3)

\* ------------------------------------------------------------------- C9
\* the errors the call may fail with according to C9: the failure of the
\* last invocation of the operation, an error handed to skipRetry, the
\* timeout error of an attempt that timed out
C9_Listed ==
    {FailureOf(n) : n \in {m \in {Calls} : Failed(m)}}
        \cup {skipLog[i].arg : i \in {j \in 1..Len(skipLog) : skipLog[j].arg \in SkipErrors}}
        \cup {TimeoutError : n \in {m \in DOMAIN race : race[m] = "timer"}}

\* C9 as stated: every failure of the call is the failure of the last
\* invocation of the operation, an error handed to skipRetry, or the timeout
\* error, and nothing else.
C9_AsStated ==
    (Done /\ result.kind = "error") => result.val \in C9_Listed

\* C9 amended: every failure of the call is the failure of the last
\* invocation of the operation, an error handed to skipRetry, the timeout
\* error, or a failure raised by the onError callback or by the delay
\* function, which is surfaced unchanged.
C9_TerminalErrors ==
    (Done /\ result.kind = "error")
        => \/ result.via \in {"skip", "exhausted"} /\ result.val \in C9_Listed
           \/ result.via \in {"onError", "delay"} /\ result.val \in CallbackErrors

\* the call failed by exhaustion with the failure of its last invocation
C9_Witness ==
    /\ Done
    /\ maxAttempts = 2
    /\ result = Thrown(OpError(2), "exhausted")
    /\ Raised(2)

\* ------------------------------------------------------------------ C10
\* C10: at most one attempt is awaited at any time, and the operation is
\* invoked for attempt N+1 only when attempt N is fully processed: its
\* failure is recorded in lastError, onError was invoked for it and returned,
\* the decision was to retry, and the delay set up for it has elapsed.
C10_Sequential ==
    /\ [](/\ Cardinality({n \in DOMAIN race : race[n] = "pending"}) <= 1
          /\ Cardinality({n \in DOMAIN op : op[n].state \in {"running", "pending"}}) <= 1)
    /\ [][fnArgs' # fnArgs =>
            /\ fnArgs' = Append(fnArgs, Calls + 1)
            /\ frame = Calls
            /\ Calls > 0 =>
                /\ Raised(Calls)
                /\ lastError = op[Calls].val
                /\ attempts = Calls + 1
                /\ options.onError => Len(onErrorArgs) = Calls
                /\ pc # "onError"
                /\ Len(slept) = Calls
                /\ elapsed = Calls
                /\ result = Pending]_vars

\* the third invocation is under way after two processed failures
C10_Witness ==
    /\ pc = "race"
    /\ Calls = 3
    /\ options.onError
    /\ onErrorArgs = << 2, 3 >>
    /\ elapsed = 2

\* ------------------------------------------------------------------ C11
\* C11: a delay is set up only after an attempt that failed, did not end the
\* call by skip or timeout and was not attempt number maxAttempts: the n-th
\* delay follows attempt n, which raised, with n < maxAttempts; no delay
\* follows a success, a skip, a timeout or the failure of the last permitted
\* attempt.
C11_DelayOnlyBeforeRetry ==
    /\ \A n \in 1..Len(slept) : Raised(n) /\ n < maxAttempts
    /\ result.via \in {"return", "skip"} => Len(slept) = Calls - 1
    /\ result.via = "exhausted" => Len(slept) = maxAttempts - 1

\* ------------------------------------------------------------------ C12
\* the attempts that are over and failed
FailedAttempts == {n \in DOMAIN op : Failed(n)}

\* C12: the attempts counter starts at 1; in every reachable state it lies in
\* 1..maxAttempts + 1 and is one more than the number of failed attempts, and
\* it equals maxAttempts + 1 only when attempt number maxAttempts has failed;
\* every step that changes it adds exactly 1 and is the failure of the
\* attempt in flight, whose ordinal is the old value.
C12_AttemptsCounter ==
    /\ attempts = 1
    /\ [](/\ attempts \in 1..(maxAttempts + 1)
          /\ attempts = 1 + Cardinality(FailedAttempts)
          /\ attempts = maxAttempts + 1 => Failed(maxAttempts)
          /\ result.via = "exhausted" => attempts = maxAttempts + 1)
    /\ [][attempts' # attempts =>
            /\ attempts' = attempts + 1
            /\ frame = attempts
            /\ ~Failed(frame)
            /\ Failed(frame)']_vars

\* both permitted attempts failed: the counter is maxAttempts + 1 and the
\* loop exited by exhaustion
C12_Witness ==
    /\ maxAttempts = 2
    /\ attempts = 3
    /\ Raised(1)
    /\ Raised(2)
    /\ result.via = "exhausted"

\* ------------------------------------------------------------------ C13
\* C13 as stated: once skipRetry has been invoked within a call, the skip flag
\* the loop tests (the one of the iteration in progress) is true for the rest
\* of the call.
C13_AsStated ==
    (SkipCalls > 0 /\ frame > 0) => skipRetry[frame]

\* C13 amended: the skip flag and the override belong to one iteration.  An
\* iteration starts with its flag false and its override null; the flag of an
\* iteration, once true, is never false again, whatever step follows (a
\* further invocation, a timer, the start of another iteration); an invocation
\* sets the flag of its own iteration, replaces the override of that iteration
\* by its argument (null when absent) and leaves the other iterations alone.
C13_LatchPerIteration ==
    /\ [](\A i \in 1..Len(skipLog) : skipRetry[skipLog[i].n])
    /\ [][/\ \A n \in DOMAIN skipRetry : skipRetry[n] => skipRetry'[n]
          /\ frame' # frame =>
                /\ ~skipRetry'[frame']
                /\ customError'[frame'] = Null
                /\ \A n \in DOMAIN skipRetry :
                      skipRetry'[n] = skipRetry[n] /\ customError'[n] = customError[n]
          /\ SkipCalls' # SkipCalls =>
                \E n \in DOMAIN skipRetry :
                    /\ skipRetry'[n]
                    /\ customError'[n] \in {OrNull(e) : e \in SkipArgs}
                    /\ \A m \in DOMAIN skipRetry \ {n} :
                          skipRetry'[m] = skipRetry[m] /\ customError'[m] = customError[m]
          /\ Len(skipLog') # Len(skipLog) =>
                /\ skipRetry'[LastSkip'.n]
                /\ customError'[LastSkip'.n] = OrNull(LastSkip'.arg)]_vars

\* the skipRetry of attempt 1 was invoked during the delay that followed it:
\* its flag is true, attempt 2 is in progress with its own flag false
C13_Witness ==
    /\ staleCalls = 1
    /\ frame = 2
    /\ pc = "fn"
    /\ skipRetry[1]
    /\ ~skipRetry[2]

\* ------------------------------------------------------------------ C14
\* C14 as stated: when the call terminated through skip and skipRetry was
\* invoked with an error at some point of that attempt, the terminal error is
\* an override error, whatever invocations followed.
C14_AsStated ==
    (/\ result.via = "skip"
     /\ \E i \in 1..Len(skipLog) : skipLog[i].n = frame /\ skipLog[i].arg \in SkipErrors)
        => result.val \in SkipErrors

\* C14 amended: when the call terminated through skip, the terminal error is
\* decided by the last skipRetry invocation the attempt made before the
\* decision, by the operation or by onError: its argument when it had one,
\* and otherwise (no argument, or no invocation at all, the timeout having
\* set the flag) the failure of the attempt, even when an earlier invocation
\* of the attempt had supplied an error.
C14_LastInvocationDecides ==
    result.via = "skip" =>
        LET mine == {i \in 1..Len(skipLog) : skipLog[i].n = frame}
            last == CHOOSE i \in mine : \A j \in mine : j <= i
        IN  /\ Failed(frame)
            /\ lastError = FailureOf(frame)
            /\ IF mine # {} /\ skipLog[last].arg \in SkipErrors
                 THEN result.val = skipLog[last].arg /\ result.val # lastError
                 ELSE result.val = lastError

\* the operation invoked skipRetry(E) and raised, onError invoked skipRetry():
\* the call failed with the error of the attempt, not with E
C14_Witness ==
    /\ Done
    /\ Len(skipLog) = 2
    /\ skipLog[1].by = "fn" /\ skipLog[1].arg \in SkipErrors
    /\ skipLog[2].by = "onError" /\ skipLog[2].arg = Undefined
    /\ result = Thrown(OpError(1), "skip")

\* ------------------------------------------------------------------ C15
\* what the caller and the callbacks observe of a call
outcome == << pc, result, attempts, lastError, fnArgs, onErrorArgs, slept >>

\* C15: the race of an attempt is settled once, by whichever of the operation
\* and the timer completes first.  The step in which the timer wins makes the
\* timeout error the failure of the attempt; from then on the settlement of
\* the abandoned operation changes nothing of the call (no value returned, no
\* onError call, no attempt, no change of the terminal error).  When the
\* operation won, the later firing of that attempt's timer changes nothing
\* either.  The call settles exactly once: it is over exactly when it has a
\* result, and nothing the caller observes changes afterwards.
C15_RaceFirstWins ==
    /\ [](/\ Done <=> result # Pending
          /\ \A n \in DOMAIN race :
                /\ race[n] = "op" => op[n].state \in {"returned", "failed"}
                /\ (TimedOut(n) /\ Done) => (result.kind = "error" /\ Calls = n))
    /\ [][/\ \A n \in DOMAIN race :
                race[n] \in {"op", "timer"} => race'[n] = race[n]
          /\ \A n \in DOMAIN race :
                (~TimedOut(n) /\ TimedOut(n)') =>
                    lastError' = TimeoutError /\ op'[n] = op[n]
          /\ (\E n \in DOMAIN op : TimedOut(n) /\ op'[n] # op[n]) =>
                outcome' = outcome
          /\ (\E n \in timers \ timers' : race[n] = "op") =>
                (outcome' = outcome /\ op' = op /\ race' = race)
          /\ Done => outcome' = outcome]_vars

\* the timer of the first attempt fired while the operation was pending and
\* the operation returned a value afterwards: the call failed with the
\* timeout error and the value went nowhere
C15_Witness ==
    /\ Done
    /\ TimedOut(1)
    /\ op[1] = [state |-> "returned", val |-> Val("success", 0)]
    /\ result = Thrown(TimeoutError, "skip")
    /\ Calls = 1

\* ------------------------------------------------------------------ C16
\* the synchronous part of fn hands control back: it returns or throws
FnSync ==
    \/ FnThrow
    \/ \E v \in Values : FnReturnValue(v)
    \/ FnReturnPromise

\* What the scheduling guarantees: the coroutine resumes when it can, a call
\* of fn or onError hands control back, armed timers fire.  Nothing makes the
\* promise of fn settle.
Fairness ==
    /\ WF_vars(Enter)
    /\ WF_vars(Exhaust)
    /\ WF_vars(FnSync)
    /\ WF_vars(OnErrorReturn)
    /\ WF_vars(Decide)
    /\ WF_vars(Wake)
    /\ WF_vars(\E n \in timers : TimeoutFire(n))

SpecFair == Init /\ [][Next]_vars /\ Fairness

\* C16: under fairness a call (maxAttempts is finite) is eventually over, with
\* a value or a failure, provided that a timeout is configured or every
\* promise of fn that is awaited eventually settles; with a timeout
\* configured no assumption is made on the promises of fn, which may stay
\* pending forever.  Stated by its only exception: a call that is never over
\* has no timeout configured and, from some point on, awaits a promise of fn
\* forever.
C16_Terminates ==
    \/ <>(Done /\ result.kind \in {"value", "error"})
    \/ <>[](pc = "race" /\ ~TruthyNum(options.timeout))

\* the promise of fn is still pending and the call is over: the timeout ended it
C16_Witness ==
    /\ Done
    /\ TimedOut(frame)
    /\ op[frame].state = "pending"
    /\ result = Thrown(TimeoutError, "skip")

\* ------------------------------------------------------------------ C17
\* C17: a timer is armed for the attempt in progress when fn has handed
\* control back, and leaves the armed timers only by firing (it is never
\* cancelled).  When the timer of an attempt fires after that attempt failed
\* by itself, the step sets the skip flag of that attempt only: the flags and
\* overrides of the other attempts, the races, the operations and everything
\* the caller observes are unchanged.  An attempt fails by timeout only in the
\* step in which its own timer fires, and a call ends through skip only when
\* the attempt in progress timed out or invoked skipRetry itself.
C17_StaleTimerHarmless ==
    /\ [](/\ \A n \in timers : n \in DOMAIN race /\ race[n] # "none"
          /\ result.via = "skip" =>
                (TimedOut(frame) \/ \E i \in 1..Len(skipLog) : skipLog[i].n = frame))
    /\ [][/\ \A n \in timers' \ timers : n = frame /\ pc = "fn"
          /\ \A n \in timers \ timers' : skipRetry'[n]
          /\ \A n \in timers \ timers' :
                Raised(n) =>
                    /\ outcome' = outcome
                    /\ frame' = frame /\ op' = op /\ race' = race
                    /\ customError' = customError
                    /\ \A m \in DOMAIN skipRetry \ {n} : skipRetry'[m] = skipRetry[m]
          /\ \A m \in DOMAIN race :
                (~TimedOut(m) /\ TimedOut(m)') =>
                    (m = frame /\ m \in timers \ timers')]_vars

\* the first attempt raised and its timer fired afterwards; the second
\* attempt is in flight with its own timer armed and its skip flag false
C17_Witness ==
    /\ Raised(1)
    /\ skipRetry[1]
    /\ SkipCalls = 0
    /\ frame = 2
    /\ pc = "race"
    /\ ~skipRetry[2]
    /\ timers = {2}

\* ------------------------------------------------------------------ C18
\* C18: when an attempt invoked skipRetry, with or without an error, and then
\* succeeded, the call returned the value of that attempt: the skip flag is
\* set and the call is not a failure, that attempt was the last invocation,
\* onError was invoked for the earlier attempts only and no delay followed.
C18_SkipThenSuccess ==
    \A n \in DOMAIN op :
        (Succeeded(n) /\ \E i \in 1..Len(skipLog) : skipLog[i].n = n)
            => /\ skipRetry[n]
               /\ Done
               /\ result = Returned(op[n].val)
               /\ Calls = n
               /\ Len(slept) = n - 1
               /\ onErrorArgs = IF options.onError THEN [a \in 1..(n - 1) |-> a + 1] ELSE << >>

\* the operation invoked skipRetry(E) in its first attempt and then returned
\* a value by its promise: the call returned it and onError was not invoked
C18_Witness ==
    /\ Done
    /\ options.onError
    /\ skipLog = << [n |-> 1, by |-> "fn", arg |-> Val("Custom error", 0), live |-> TRUE] >>
    /\ customError[1] = Val("Custom error", 0)
    /\ Succeeded(1)
    /\ result = Returned(Val("success", 0))
    /\ onErrorArgs = << >>

\* ------------------------------------------------------------------ C19
\* C19: when onError raised F, the call is over and failed with F, which is
\* neither the error of the attempt nor an override, whether or not skipRetry
\* was invoked and whatever number of attempts remains: the failed attempt
\* that onError was told about is the last invocation of the operation and
\* no delay was set up after it.
C19_OnErrorRaises ==
    result.via = "onError" =>
        /\ Done
        /\ result.kind = "error"
        /\ result.val \in CallbackErrors
        /\ result.val # lastError
        /\ result.val \notin SkipErrors
        /\ Failed(frame)
        /\ lastError = FailureOf(frame)
        /\ Calls = frame
        /\ attempts = frame + 1
        /\ onErrorArgs = [a \in 1..frame |-> a + 1]
        /\ Len(slept) = frame - 1
        /\ elapsed = frame - 1

\* the first attempt of five invoked skipRetry(E) and raised, then onError
\* raised: the call failed with the error of onError after one invocation
C19_Witness ==
    /\ maxAttempts = 5
    /\ skipLog = << [n |-> 1, by |-> "fn", arg |-> Val("Custom error", 0), live |-> TRUE] >>
    /\ Raised(1)
    /\ Calls = 1
    /\ slept = << >>
    /\ result = Thrown(Val("callback failed", 0), "onError")

====
